---- MODULE Spec2Model ----
(***************************************************************************)
(* A model of forge/models/json_schema.py: the JSONSchema node, its        *)
(* document codec (to_dict / from_dict / parse_properties), the reference  *)
(* resolver (_resolve_type_refs_in_schema), validate_object, the two type  *)
(* projections (python_type, typescript_type) and from_python_type.        *)
(*                                                                         *)
(* Python values are tagged records [k |-> tag, v |-> payload]:            *)
(*   None  [k |-> "null"]            str   [k |-> "str",  v |-> "text"]    *)
(*   int   [k |-> "num", v |-> 3]    bool  [k |-> "bool", v |-> TRUE]      *)
(*   list  [k |-> "list", v |-> <<...>>]                                   *)
(*   dict  [k |-> "dict", v |-> << [key |-> "a", val |-> ...], ... >>]     *)
(*         (a sequence of entries: Python dicts keep insertion order)      *)
(*   float('nan')  [k |-> "float", v |-> "nan"]                            *)
(*   a str holding "/" is written as its tokens,                           *)
(*         [k |-> "pstr", v |-> <<"#", "/", "definitions", "/", "Foo">>]   *)
(*   a raised exception  [k |-> "err", v |-> "KeyError"]                   *)
(*   a JSONSchema object [k |-> "node", type |-> ..., ...]                 *)
(***************************************************************************)
EXTENDS Integers, Sequences, FiniteSets, TLC

VARIABLES
    pc,     \* where the run is
    input,  \* the argument of the call
    aux,    \* a second argument: the object validated, the definitions table
    work,   \* the structure under construction
    out,    \* what the call returned or raised
    steps   \* the steps the interpreter has taken

vars == <<pc, input, aux, work, out, steps>>

(***************************************************************************)
(* Python values                                                           *)
(***************************************************************************)
None == [k |-> "null"]

JStr(s) == [k |-> "str", v |-> s]

JPath(tokens) == [k |-> "pstr", v |-> tokens]

JNum(n) == [k |-> "num", v |-> n]

JBool(b) == [k |-> "bool", v |-> b]

JList(l) == [k |-> "list", v |-> l]

JDict(entries) == [k |-> "dict", v |-> entries]

NaN == [k |-> "float", v |-> "nan"]

Entry(key, val) == [key |-> key, val |-> val]

Err(kind) == [k |-> "err", v |-> kind]

IsErr(x) == x.k = "err"

\* bool(x): Python truthiness
Truthy(x) ==
    CASE x.k = "null" -> FALSE
      [] x.k = "str" -> x.v # ""
      [] x.k = "pstr" -> Len(x.v) > 0
      [] x.k = "num" -> x.v # 0
      [] x.k = "bool" -> x.v
      [] x.k = "list" -> Len(x.v) > 0
      [] x.k = "dict" -> Len(x.v) > 0
      [] OTHER -> TRUE

\* key in d
Has(d, key) == \E i \in 1..Len(d.v) : d.v[i].key = key

\* d[key], for a key that is in d
Get(d, key) == d.v[CHOOSE i \in 1..Len(d.v) : d.v[i].key = key].val

\* d.get(key)
GetOrNone(d, key) == IF Has(d, key) THEN Get(d, key) ELSE None

Keys(d) == [i \in 1..Len(d.v) |-> d.v[i].key]

Range(s) == {s[i] : i \in 1..Len(s)}

AnyErr(s) == \E i \in 1..Len(s) : IsErr(s[i])

\* the exception a left-to-right evaluation of s raises first
FirstErr(s) == s[CHOOSE i \in 1..Len(s) : IsErr(s[i]) /\ \A j \in 1..(i-1) : ~IsErr(s[j])]

(***************************************************************************)
(* repr() and ast.literal_eval() on the literals the model uses            *)
(***************************************************************************)
LiteralValues ==
    {None, JBool(TRUE), JBool(FALSE), JStr("a"), JStr("b")} \cup {JNum(i) : i \in (0-1)..6}

Repr(x) ==
    CASE x.k = "null" -> "None"
      [] x.k = "bool" -> IF x.v THEN "True" ELSE "False"
      [] x.k = "num" -> ToString(x.v)
      [] x.k = "str" -> "'" \o x.v \o "'"
      [] x.k = "float" -> x.v
      [] OTHER -> "<object>"

\* ast.literal_eval accepts the text of a literal; "nan" is a name, not a literal
LiteralEval(s) ==
    IF \E x \in LiteralValues : Repr(x) = s
    THEN CHOOSE x \in LiteralValues : Repr(x) = s
    ELSE Err("ValueError")

(***************************************************************************)
(* class JSONSchema(BaseModel)                                              *)
(***************************************************************************)
TypeValues == {"string", "array", "object", "number", "integer", "boolean", "type"}

\* JSONSchema(**fields): the fields not given keep their defaults
JSONSchema(f) ==
    f @@
    [k |-> "node",
     description |-> None, type |-> None, enum |-> None, required |-> FALSE,
     default |-> None, items |-> None, properties |-> None,
     additional_properties |-> None, minimum |-> None, maximum |-> None,
     minItems |-> None, maxItems |-> None]

RECURSIVE to_dict(_)

required_names(props) ==
    LET req == SelectSeq(props, LAMBDA e : e.val.required)
    IN  JList([i \in 1..Len(req) |-> JStr(req[i].key)])

\* the three keys every node starts from
base_fields(n) ==
    << Entry("type", IF Truthy(n.type) THEN n.type ELSE None),
       Entry("description", n.description),
       Entry("default", JStr(Repr(n.default))) >>

\* the last branch of to_dict: neither array, object nor enum
bounds_fields(n) ==
    << Entry("minumum", n.minimum), Entry("maximum", n.maximum) >>

\* {k: v for k, v in schema.items() if v is not None}
drop_none(entries) == SelectSeq(entries, LAMBDA e : e.val # None)

to_dict(n) ==
    LET schema ==
          base_fields(n) \o
          ( IF n.type = JStr("array") THEN
                (IF Truthy(n.items) THEN << Entry("items", to_dict(n.items)) >> ELSE << >>)
                \o << Entry("minItems", n.minItems), Entry("maxItems", n.maxItems) >>
            ELSE IF n.type = JStr("object") THEN
                (IF Truthy(n.properties) THEN
                    << Entry("properties",
                             JDict([i \in 1..Len(n.properties.v) |->
                                      Entry(n.properties.v[i].key,
                                            to_dict(n.properties.v[i].val))])),
                       Entry("required", required_names(n.properties.v)) >>
                 ELSE << >>)
                \o (IF Truthy(n.additional_properties)
                    THEN << Entry("additionalProperties", to_dict(n.additional_properties)) >>
                    ELSE << >>)
            ELSE IF Truthy(n.enum) THEN << Entry("enum", n.enum) >>
            ELSE bounds_fields(n) )
    IN  JDict(drop_none(schema))

(***************************************************************************)
(* _resolve_type_refs_in_schema                                            *)
(***************************************************************************)
\* str.split("/") on a str written as its tokens
RECURSIVE SplitTokens(_)

SplitTokens(toks) ==
    IF toks = << >> THEN << "" >>
    ELSE LET rest == SplitTokens(Tail(toks))
         IN  IF Head(toks) = "/" THEN << "" >> \o rest
             ELSE << Head(toks) \o Head(rest) >> \o Tail(rest)

Split(s) == IF s.k = "pstr" THEN SplitTokens(s.v) ELSE << s.v >>

\* schema["$ref"].split("/")[2:]
ref_path(schema) ==
    LET ref == Get(schema, "$ref")
    IN  IF ref.k \notin {"str", "pstr"} THEN Err("AttributeError")
        ELSE LET parts == Split(ref)
             IN  JList(SubSeq(parts, 3, Len(parts)))

\* for key in ref_path: ref_value = ref_value[key]
RECURSIVE follow_path(_, _)

follow_path(ref_value, path) ==
    IF path = << >> THEN ref_value
    ELSE IF ref_value.k = "dict" THEN
            IF Has(ref_value, Head(path))
            THEN follow_path(Get(ref_value, Head(path)), Tail(path))
            ELSE Err("KeyError")
    ELSE Err("TypeError")

\* the value a "$ref" mapping stands for, before it is resolved itself
ref_target(schema, definitions) ==
    LET path == ref_path(schema)
    IN  IF IsErr(path) THEN path ELSE follow_path(definitions, path.v)

RECURSIVE _resolve_type_refs_in_schema(_, _)

RECURSIVE resolve_each(_, _)

\* the values of a comprehension, resolved left to right: a list of them, or the
\* exception the first failing one raises
resolve_each(values, definitions) ==
    IF values = << >> THEN JList(<< >>)
    ELSE LET first == _resolve_type_refs_in_schema(Head(values), definitions)
         IN  IF IsErr(first) THEN first
             ELSE LET rest == resolve_each(Tail(values), definitions)
                  IN  IF IsErr(rest) THEN rest ELSE JList(<< first >> \o rest.v)

_resolve_type_refs_in_schema(schema, definitions) ==
    IF schema.k = "dict" THEN
        IF Has(schema, "$ref") THEN
            LET ref_value == ref_target(schema, definitions)
            IN  IF IsErr(ref_value) THEN ref_value
                ELSE _resolve_type_refs_in_schema(ref_value, definitions)
        ELSE
            LET vals == resolve_each([i \in 1..Len(schema.v) |-> schema.v[i].val], definitions)
            IN  IF IsErr(vals) THEN vals
                ELSE JDict([i \in 1..Len(schema.v) |-> Entry(schema.v[i].key, vals.v[i])])
    ELSE IF schema.k = "list" THEN resolve_each(schema.v, definitions)
    ELSE schema

(***************************************************************************)
(* from_dict, parse_properties                                             *)
(***************************************************************************)
RECURSIVE from_dict(_)

RECURSIVE parse_properties(_)

\* a parse_properties that marks every property required
required_flag_always(key, schema_node) == TRUE

\* v.required = k in schema_node["required"]
required_flag(key, schema_node) ==
    JStr(key) \in Range(Get(schema_node, "required").v)

\* {k: JSONSchema.from_dict(v) ...}: the i-th key is bound to the object the
\* i-th call constructs; objects are numbered in construction order
new_object(props, i) == i

\* for k, v in properties.items(): v.required = ...   (the first n assignments)
RECURSIVE assign_required(_, _, _, _)

assign_required(heap, props, schema_node, n) ==
    IF n = 0 THEN heap
    ELSE LET before == assign_required(heap, props, schema_node, n - 1)
         IN  [before EXCEPT ![new_object(props, n)].required =
                               required_flag(props[n].key, schema_node)]

parse_properties(schema_node) ==
    IF Has(schema_node, "properties") /\ Get(schema_node, "properties").k # "dict"
    THEN Err("AttributeError")
    ELSE
    LET props == IF Has(schema_node, "properties")
                 THEN Get(schema_node, "properties").v ELSE << >>
        heap == [i \in 1..Len(props) |-> from_dict(props[i].val)]
    IN  IF AnyErr(heap) THEN FirstErr(heap)
        ELSE IF Has(schema_node, "required") /\ Get(schema_node, "required").k # "list"
        THEN Err("TypeError")
        ELSE
        LET final == IF Has(schema_node, "required")
                     THEN assign_required(heap, props, schema_node, Len(props))
                     ELSE heap
        IN  JDict([i \in 1..Len(props) |->
                     Entry(props[i].key, final[new_object(props, i)])])

\* pydantic's check of the constructor's arguments
validate_fields(f) ==
    IF f.type.k # "str" \/ f.type.v \notin TypeValues THEN Err("ValidationError")
    ELSE IF f.enum.k \notin {"null", "list"} THEN Err("ValidationError")
    ELSE JSONSchema(f)

\* lines 72-88: the node built from a resolved document
from_resolved(schema) ==
    IF schema.k # "dict" THEN Err("AttributeError")
    ELSE IF ~Has(schema, "type") THEN Err("KeyError")
    ELSE
    LET d == GetOrNone(schema, "default")
        default == IF Truthy(d)
                   THEN (IF d.k = "str" THEN LiteralEval(d.v) ELSE Err("ValueError"))
                   ELSE None
        i == GetOrNone(schema, "items")
        items == IF Truthy(i) THEN from_dict(i) ELSE None
        isobj == Get(schema, "type") = JStr("object")
        properties == IF isobj THEN parse_properties(schema) ELSE None
        ap == GetOrNone(schema, "additionalProperties")
        additional == IF isobj /\ Truthy(ap) THEN from_dict(ap) ELSE None
        args == << default, items, properties, additional >>
    IN  IF AnyErr(args) THEN FirstErr(args)
        ELSE validate_fields(
               [description |-> GetOrNone(schema, "description"),
                type |-> Get(schema, "type"),
                default |-> default,
                enum |-> GetOrNone(schema, "enum"),
                items |-> items,
                properties |-> properties,
                additional_properties |-> additional,
                minimum |-> GetOrNone(schema, "minimum"),
                maximum |-> GetOrNone(schema, "maximum"),
                minItems |-> GetOrNone(schema, "minItems"),
                maxItems |-> GetOrNone(schema, "maxItems")])

\* schema.get("definitions", {})
definitions_of(schema) ==
    IF Has(schema, "definitions") THEN Get(schema, "definitions") ELSE JDict(<< >>)

from_dict(schema) ==
    IF schema.k # "dict" THEN Err("AttributeError")
    ELSE LET resolved == _resolve_type_refs_in_schema(schema, definitions_of(schema))
         IN  IF IsErr(resolved) THEN resolved ELSE from_resolved(resolved)

(***************************************************************************)
(* validate_object: Draft7Validator(self.to_dict()).iter_errors(object),   *)
(* for a scalar object.  The keywords items, properties, required,         *)
(* additionalProperties, minItems and maxItems constrain arrays and        *)
(* objects only; a key the draft does not define constrains nothing.       *)
(***************************************************************************)
JsonTypes == {"string", "array", "object", "number", "integer", "boolean", "null"}

is_type(instance, type) ==
    CASE type = "integer" -> instance.k = "num"
      [] type = "number" -> instance.k = "num"
      [] type = "string" -> instance.k \in {"str", "pstr"}
      [] type = "boolean" -> instance.k = "bool"
      [] type = "null" -> instance.k = "null"
      [] OTHER -> FALSE

\* whether the keyword of one schema entry rejects the instance
keyword_fails(e, instance) ==
    CASE e.key = "type" -> ~is_type(instance, e.val.v)
      [] e.key = "enum" -> instance \notin Range(e.val.v)
      [] e.key = "minimum" -> instance.k = "num" /\ instance.v < e.val.v
      [] e.key = "maximum" -> instance.k = "num" /\ instance.v > e.val.v
      [] OTHER -> FALSE

iter_errors(schema, instance) ==
    IF Has(schema, "type") /\ Get(schema, "type").v \notin JsonTypes
    THEN Err("UnknownType")
    ELSE LET failed == SelectSeq(schema.v, LAMBDA e : keyword_fails(e, instance))
         IN  JList([i \in 1..Len(failed) |-> JStr(failed[i].key)])

validate_object(n, object) ==
    LET errors == iter_errors(to_dict(n), object)
    IN  IF IsErr(errors) THEN errors
        ELSE IF Truthy(errors) THEN [k |-> "verdict", valid |-> FALSE, errors |-> errors.v]
        ELSE [k |-> "verdict", valid |-> TRUE, errors |-> << >>]

(***************************************************************************)
(* python_type                                                             *)
(***************************************************************************)
RECURSIVE Join(_, _)

\* sep.join(strs)
Join(sep, strs) ==
    IF strs = << >> THEN ""
    ELSE IF Len(strs) = 1 THEN strs[1]
    ELSE strs[1] \o sep \o Join(sep, Tail(strs))

Reprs(values) == [i \in 1..Len(values) |-> Repr(values[i])]

\* _JSON_TO_PYTHON_TYPE[type].__name__
json_to_python_name(type) ==
    CASE type = "integer" -> "int"
      [] type = "string" -> "str"
      [] type = "boolean" -> "bool"
      [] type = "number" -> "float"

in_json_to_python(type) ==
    type.k = "str" /\ type.v \in {"integer", "string", "boolean", "number"}

RECURSIVE python_type(_)

\* a python_type that takes every object for an open one
python_type_of_object_open(n) == JStr("dict")

\* the branch for Type.OBJECT
python_type_of_object(n) ==
    IF ~Truthy(n.properties) THEN JStr("dict") ELSE Err("NotImplementedError")

\* the branch for Type.ARRAY
python_type_of_array(n) ==
    IF Truthy(n.items) THEN
        LET inner == python_type(n.items)
        IN  IF IsErr(inner) THEN inner ELSE JStr("list[" \o inner.v \o "]")
    ELSE JStr("list")

python_type(n) ==
    IF in_json_to_python(n.type) THEN JStr(json_to_python_name(n.type.v))
    ELSE IF n.type = JStr("array") THEN python_type_of_array(n)
    ELSE IF n.type = JStr("object") THEN python_type_of_object(n)
    ELSE IF Truthy(n.enum) THEN JStr("Union[" \o Join(", ", Reprs(n.enum.v)) \o "]")
    ELSE IF n.type = JStr("type") THEN JStr("type")
    ELSE IF n.type = None THEN JStr("Any")
    ELSE Err("NotImplementedError")

(***************************************************************************)
(* typescript_type, to_typescript_object_interface.  A text of several     *)
(* lines is the sequence of its lines, [k |-> "text", v |-> <<lines>>].    *)
(***************************************************************************)
Text(lines) == [k |-> "text", v |-> lines]

\* pre + text + suf
Affix(lines, pre, suf) ==
    [i \in 1..Len(lines) |->
        (IF i = 1 THEN pre ELSE "") \o lines[i] \o (IF i = Len(lines) THEN suf ELSE "")]

\* textwrap.indent(text, prefix): lines of white space only are left as they are
indent(lines, prefix) ==
    [i \in 1..Len(lines) |-> IF lines[i] = "" THEN lines[i] ELSE prefix \o lines[i]]

RECURSIVE Flatten(_)

Flatten(seqs) == IF seqs = << >> THEN << >> ELSE Head(seqs) \o Flatten(Tail(seqs))

RECURSIVE typescript_type(_)

RECURSIVE to_typescript_object_interface(_, _)

to_typescript_object_interface(n, interface_name) ==
    IF n.type # JStr("object") THEN Err("NotImplementedError")
    ELSE
    LET props == IF Truthy(n.properties) THEN n.properties.v ELSE << >>
        types == [i \in 1..Len(props) |-> typescript_type(props[i].val)]
    IN  IF AnyErr(types) THEN FirstErr(types)
        ELSE
        LET attributes ==
              IF Truthy(n.properties) THEN
                  Flatten([i \in 1..Len(props) |->
                      (IF Truthy(props[i].val.description)
                       THEN << "// " \o props[i].val.description.v >> ELSE << >>)
                      \o Affix(types[i].v, props[i].key \o ": ", ";")])
              ELSE << "[key: string]: any" >>
            head == IF interface_name # "" THEN "interface " \o interface_name \o " " ELSE ""
        IN  Text(<< head \o "{" >> \o indent(attributes, "  ") \o << "}" >>)

typescript_type(n) ==
    IF ~Truthy(n.type) THEN Text(<< "any" >>)
    ELSE IF n.type = JStr("boolean") THEN Text(<< "boolean" >>)
    ELSE IF n.type \in {JStr("integer"), JStr("number")} THEN Text(<< "number" >>)
    ELSE IF n.type = JStr("string") THEN Text(<< "string" >>)
    ELSE IF n.type = JStr("array") THEN
        IF Truthy(n.items) THEN
            LET inner == typescript_type(n.items)
            IN  IF IsErr(inner) THEN inner ELSE Text(Affix(inner.v, "Array<", ">"))
        ELSE Text(<< "Array" >>)
    ELSE IF n.type = JStr("object") THEN
        IF ~Truthy(n.properties) THEN Text(<< "Record<string, any>" >>)
        ELSE to_typescript_object_interface(n, "")
    ELSE IF Truthy(n.enum) THEN Text(<< Join(" | ", Reprs(n.enum.v)) >>)
    ELSE IF n.type = JStr("type") THEN Text(<< "type" >>)
    ELSE IF n.type = None THEN Text(<< "any" >>)
    ELSE Err("NotImplementedError")

(***************************************************************************)
(* The nodes the codec, the validator and the projections are run on       *)
(***************************************************************************)
\* nesting depth of items / properties
MaxDepth == 2

\* most properties of one object
MaxProps == 2

PropNames == {"a", "b", "$ref"}

ScalarKinds == {JStr("string"), JStr("number"), JStr("integer"), JStr("boolean"), JStr("type"), None}

Leaves == {JSONSchema([type |-> t]) : t \in {JStr("string"), JStr("integer"), None}}

\* a node as a property value: the parent's key is required or not
AsProperty(nodes) == {[n EXCEPT !.required = r] : n \in nodes, r \in BOOLEAN}

ArraysOf(nodes) ==
    {JSONSchema([type |-> JStr("array"), items |-> i]) : i \in {None} \cup nodes}

\* objects of at most one property
NarrowObjectsOf(nodes) ==
    {JSONSchema([type |-> JStr("object"), properties |-> p]) : p \in {None, JDict(<< >>)}}
    \cup {JSONSchema([type |-> JStr("object"), properties |-> JDict(<< Entry(name, c) >>)]) :
            name \in PropNames, c \in AsProperty(nodes)}

NameSeqs(n) == {s \in [1..n -> PropNames] : \A i, j \in 1..n : i # j => s[i] # s[j]}

\* objects of several properties, each a leaf
WideObjects ==
    UNION {
      {JSONSchema([type |-> JStr("object"),
                   properties |-> JDict([i \in 1..n |-> Entry(names[i], kids[i])])]) :
          names \in NameSeqs(n), kids \in [1..n -> AsProperty(Leaves)]} :
      n \in 2..MaxProps}

RECURSIVE Nested(_)

Nested(d) ==
    IF d = 0 THEN Leaves
    ELSE LET sub == Nested(d - 1) IN sub \cup ArraysOf(sub) \cup NarrowObjectsOf(sub)

Enums == {None, JList(<< >>), JList(<< JNum(1), JStr("a") >>)}

\* nodes without children, every optional field set or not
Scalars ==
    {JSONSchema([type |-> t, description |-> d, default |-> df, enum |-> e,
                 minimum |-> lo, maximum |-> hi]) :
        t \in ScalarKinds, d \in {None, JStr("d")},
        df \in {None, JNum(0), JStr("a"), NaN}, e \in Enums,
        lo \in {None, JNum(0)}, hi \in {None, JNum(5)}}

Bounded == JSONSchema([type |-> JStr("integer"), minimum |-> JNum(0), description |-> JStr("d")])

\* arrays and objects with their own optional fields set
Containers ==
    {JSONSchema([type |-> JStr("array"), items |-> i, minItems |-> lo, maxItems |-> hi,
                 enum |-> e]) :
        i \in {None, Bounded}, lo \in {None, JNum(1)}, hi \in {None, JNum(2)},
        e \in {None, JList(<< JNum(1), JStr("a") >>)}}
    \cup
    {JSONSchema([type |-> JStr("object"), properties |-> p, additional_properties |-> ap,
                 enum |-> e, default |-> df]) :
        p \in {None, JDict(<< Entry("a", Bounded) >>)},
        ap \in {None, Bounded, JSONSchema([description |-> JStr("d")])},
        e \in {None, JList(<< JNum(1), JStr("a") >>)},
        df \in {None, NaN}}

Nodes == Nested(MaxDepth) \cup WideObjects \cup Scalars \cup Containers

Candidates == {JNum(0 - 1), JNum(0), JNum(3), JNum(6), JStr("a")}

(***************************************************************************)
(* The codec, the validator and the projections, each applied to a node    *)
(***************************************************************************)
InitCodec ==
    /\ steps = 0
    /\ pc = "node"
    /\ input \in Nodes
    /\ aux = None
    /\ work = None
    /\ out = None

ToDictStep ==
    /\ pc = "node"
    /\ steps' = steps + 1
    /\ out' = to_dict(input)
    /\ pc' = "encoded"
    /\ UNCHANGED <<input, aux, work>>

\* from_dict of the document to_dict returned
FromDictStep ==
    /\ pc = "encoded"
    /\ steps' = steps + 1
    /\ work' = out
    /\ out' = from_dict(out)
    /\ pc' = "decoded"
    /\ UNCHANGED <<input, aux>>

ValidateStep ==
    /\ pc = "node"
    /\ steps' = steps + 1
    /\ \E object \in Candidates :
          /\ aux' = object
          /\ out' = validate_object(input, object)
    /\ pc' = "validated"
    /\ UNCHANGED <<input, work>>

PythonTypeStep ==
    /\ pc = "node"
    /\ steps' = steps + 1
    /\ out' = python_type(input)
    /\ pc' = "python_type"
    /\ UNCHANGED <<input, aux, work>>

TypescriptTypeStep ==
    /\ pc = "node"
    /\ steps' = steps + 1
    /\ out' = typescript_type(input)
    /\ pc' = "typescript_type"
    /\ UNCHANGED <<input, aux, work>>

NextCodec ==
    \/ ToDictStep
    \/ FromDictStep
    \/ ValidateStep
    \/ PythonTypeStep
    \/ TypescriptTypeStep

SpecCodec == InitCodec /\ [][NextCodec]_vars
(***************************************************************************)
(* Properties of the codec, the validator and the projections              *)
(***************************************************************************)
\* the properties of a node, none when the field is absent
PropsOf(n) == IF n.properties = None THEN << >> ELSE n.properties.v

RequiredSet(n) == {e.key : e \in {x \in Range(PropsOf(n)) : x.val.required}}

RECURSIVE SameShape(_, _)

\* same kind, same required property names, same nested items and properties
SameShape(n, m) ==
    /\ n.type = m.type
    /\ RequiredSet(n) = RequiredSet(m)
    /\ [i \in 1..Len(PropsOf(n)) |-> PropsOf(n)[i].key]
         = [i \in 1..Len(PropsOf(m)) |-> PropsOf(m)[i].key]
    /\ \A i \in 1..Len(PropsOf(n)) : SameShape(PropsOf(n)[i].val, PropsOf(m)[i].val)
    /\ (n.items = None) = (m.items = None)
    /\ (n.items # None => SameShape(n.items, m.items))

RECURSIVE Plain(_)

\* no enum and no additional_properties anywhere, items only under an array
\* and properties only under an object, every default a literal that repr
\* writes and literal_eval reads back, no property named "$ref"
Plain(n) ==
    /\ n.enum = None
    /\ n.additional_properties = None
    /\ n.default \in LiteralValues
    /\ (n.items # None => n.type = JStr("array") /\ Plain(n.items))
    /\ (n.properties # None => n.type = JStr("object"))
    /\ \A e \in Range(PropsOf(n)) : e.key # "$ref" /\ Plain(e.val)

RECURSIVE AllTyped(_)

\* every node of the tree has a kind
AllTyped(n) ==
    /\ n.type # None
    /\ (n.items # None => AllTyped(n.items))
    /\ \A e \in Range(PropsOf(n)) : AllTyped(e.val)

\* The part of C1 the code satisfies: for every plain node whose every node
\* has a kind, from_dict(to_dict(n)) succeeds with the same kind, the same
\* required names at every object level and the same nested structure; for a
\* plain node with an untyped node anywhere in it, from_dict(to_dict(n))
\* raises KeyError, to_dict having left "type" out.
RoundTripTyped ==
    (pc = "decoded" /\ Plain(input)) =>
        IF AllTyped(input) THEN ~IsErr(out) /\ SameShape(input, out)
        ELSE out = Err("KeyError")

\* a typed object whose required property is an array with items has been
\* encoded and decoded
RoundTripTypedReached ==
    /\ pc = "decoded"
    /\ Plain(input) /\ AllTyped(input)
    /\ input.type = JStr("object")
    /\ \E e \in Range(PropsOf(input)) :
          e.val.required /\ e.val.type = JStr("array") /\ e.val.items # None

\* C1: for every node without enum and without additional_properties, of any
\* kind, untyped included, from_dict(to_dict(n)) succeeds and yields a node of
\* the same kind, the same required property names at every object level and
\* the same nested items and properties
C1_RoundTripAnyKind ==
    (pc = "decoded" /\ Plain(input)) => (~IsErr(out) /\ SameShape(input, out))

DocKeys ==
    {"type", "description", "default", "items", "properties", "additionalProperties",
     "enum", "minimum", "maximum", "minItems", "maxItems"}

\* the field of the node a document key stands for
FieldOf(n, key) ==
    CASE key = "type" -> n.type
      [] key = "description" -> n.description
      [] key = "default" -> n.default
      [] key = "items" -> n.items
      [] key = "properties" -> n.properties
      [] key = "additionalProperties" -> n.additional_properties
      [] key = "enum" -> n.enum
      [] key = "minimum" -> n.minimum
      [] key = "maximum" -> n.maximum
      [] key = "minItems" -> n.minItems
      [] key = "maxItems" -> n.maxItems

RECURSIVE OmitsAbsent(_, _)

OmitsAbsent(n, doc) ==
    /\ \A e \in Range(doc.v) :
          /\ e.val # None
          /\ (e.key \in DocKeys => FieldOf(n, e.key) # None)
    /\ (Has(doc, "items") => OmitsAbsent(n.items, Get(doc, "items")))
    /\ (Has(doc, "additionalProperties") =>
          OmitsAbsent(n.additional_properties, Get(doc, "additionalProperties")))
    /\ (Has(doc, "properties") =>
          \A i \in 1..Len(Get(doc, "properties").v) :
              OmitsAbsent(n.properties.v[i].val, Get(doc, "properties").v[i].val))

\* C2: a key of to_dict(n), at any nesting level, stands for a field of the
\* node that is present, and no value is null
C2_OmitsAbsentFields == pc = "encoded" => OmitsAbsent(input, out)

Rejected(verdict) ==
    verdict.k = "verdict" /\ ~verdict.valid /\ Len(verdict.errors) >= 1

\* C3: a node of kind integer or number without enum rejects, with at least
\* one issue, every number below its minimum and every number above its maximum
C3_NumericBoundsEnforced ==
    (/\ pc = "validated"
     /\ input.type \in {JStr("integer"), JStr("number")}
     /\ ~Truthy(input.enum)
     /\ aux.k = "num") =>
        /\ (input.minimum # None /\ aux.v < input.minimum.v => Rejected(out))
        /\ (input.maximum # None /\ aux.v > input.maximum.v => Rejected(out))

RECURSIVE ProjectsDeclaredObject(_)

\* the projection of n reaches an object with declared properties: n is one,
\* or n is an array whose items lead to one
ProjectsDeclaredObject(n) ==
    \/ n.type = JStr("object") /\ Truthy(n.properties)
    \/ n.type = JStr("array") /\ n.items # None /\ ProjectsDeclaredObject(n.items)

\* C6: python_type of an object with declared properties, projected itself or
\* as the items of an array, raises NotImplementedError and returns no type
C6_DeclaredObjectRejected ==
    (pc = "python_type" /\ ProjectsDeclaredObject(input)) =>
        out = Err("NotImplementedError")

\* C6 witness: python_type has been taken of an array whose items are an
\* object with declared properties
C6_Witness ==
    /\ pc = "python_type"
    /\ input.type = JStr("array")
    /\ input.items # None
    /\ input.items.type = JStr("object")
    /\ Truthy(input.items.properties)

EnumNotContainer(n) ==
    Truthy(n.enum) /\ n.type \notin {JStr("array"), JStr("object")}

\* C8: a node with enum values whose kind is neither array nor object projects
\* to the union of its literal values, in order, under both projections
C8_EnumProjectsToUnion ==
    /\ (pc = "python_type" /\ EnumNotContainer(input)) =>
          out = JStr("Union[" \o Join(", ", Reprs(input.enum.v)) \o "]")
    /\ (pc = "typescript_type" /\ EnumNotContainer(input)) =>
          out = Text(<< Join(" | ", Reprs(input.enum.v)) >>)
(***************************************************************************)
(* _resolve_type_refs_in_schema, one call at a time.  The tree under       *)
(* construction holds, where a call has not been made yet, its argument    *)
(* and the depth of the call: [k |-> "pending", v |-> schema, depth |-> d].*)
(* Python evaluates the comprehensions left to right, each value to its    *)
(* end, so the next call made is the leftmost pending one.                 *)
(***************************************************************************)
\* the call depth at which the interpreter raises RecursionError
RecursionLimit == 12

Pending(schema, depth) == [k |-> "pending", v |-> schema, depth |-> depth]

RECURSIVE HasPending(_)

HasPending(t) ==
    CASE t.k = "pending" -> TRUE
      [] t.k = "dict" -> \E i \in 1..Len(t.v) : HasPending(t.v[i].val)
      [] t.k = "list" -> \E i \in 1..Len(t.v) : HasPending(t.v[i])
      [] OTHER -> FALSE

\* a resolver that returns the value a reference names without resolving it
resolve_ref_once(schema, definitions, depth) == ref_target(schema, definitions)

\* a resolver that resolves the reference again in place of the value it names
resolve_ref_again(schema, definitions, depth) ==
    LET ref_value == ref_target(schema, definitions)
    IN  IF IsErr(ref_value) THEN ref_value ELSE Pending(schema, depth + 1)

\* if "$ref" in schema: ... return _resolve_type_refs_in_schema(ref_value, definitions)
resolve_ref(schema, definitions, depth) ==
    LET ref_value == ref_target(schema, definitions)
    IN  IF IsErr(ref_value) THEN ref_value ELSE Pending(ref_value, depth + 1)

\* the body of one call: what it returns, the calls it makes still pending
resolve_call(schema, definitions, depth) ==
    IF depth > RecursionLimit THEN Err("RecursionError")
    ELSE IF schema.k = "dict" THEN
        IF Has(schema, "$ref") THEN resolve_ref(schema, definitions, depth)
        ELSE JDict([i \in 1..Len(schema.v) |->
                      Entry(schema.v[i].key, Pending(schema.v[i].val, depth + 1))])
    ELSE IF schema.k = "list" THEN
        JList([i \in 1..Len(schema.v) |-> Pending(schema.v[i], depth + 1)])
    ELSE schema

\* the position, among the children of t, of the leftmost one with a pending call
leftmost(t) ==
    IF t.k = "dict"
    THEN CHOOSE i \in 1..Len(t.v) :
            HasPending(t.v[i].val) /\ \A j \in 1..(i-1) : ~HasPending(t.v[j].val)
    ELSE CHOOSE i \in 1..Len(t.v) :
            HasPending(t.v[i]) /\ \A j \in 1..(i-1) : ~HasPending(t.v[j])

RECURSIVE next_pending(_)

\* the call made next
next_pending(t) ==
    IF t.k = "pending" THEN t
    ELSE IF t.k = "dict" THEN next_pending(t.v[leftmost(t)].val)
    ELSE next_pending(t.v[leftmost(t)])

RECURSIVE returned(_, _)

\* the tree once the call made next has returned r
returned(t, r) ==
    IF t.k = "pending" THEN r
    ELSE IF t.k = "dict"
    THEN [t EXCEPT !.v[leftmost(t)].val = returned(t.v[leftmost(t)].val, r)]
    ELSE [t EXCEPT !.v[leftmost(t)] = returned(t.v[leftmost(t)], r)]

\* what the call made next returns or raises
resolve_next(t, definitions) ==
    resolve_call(next_pending(t).v, definitions, next_pending(t).depth)

(***************************************************************************)
(* The documents and definitions tables the resolver is run on             *)
(***************************************************************************)
Ref(tokens) == JDict(<< Entry("$ref", JPath(<< "#", "/", "definitions" >> \o tokens)) >>)

RefFoo == Ref(<< "/", "Foo" >>)

RefBar == Ref(<< "/", "Bar" >>)

TypeOnly(t) == JDict(<< Entry("type", JStr(t)) >>)

FooFragments ==
    { TypeOnly("string"),
      RefBar,
      JDict(<< Entry("type", JStr("array")), Entry("items", RefBar) >>),
      JDict(<< Entry("type", JStr("object")),
               Entry("properties", JDict(<< Entry("x", RefBar), Entry("y", RefBar) >>)),
               Entry("required", JList(<< JStr("y") >>)) >>),
      RefFoo,
      JDict(<< Entry("type", JStr("array")), Entry("items", RefFoo) >>),
      Ref(<< "/", "Missing" >>) }

BarFragments ==
    { TypeOnly("integer"),
      RefFoo,
      JStr("scalar"),
      JDict(<< Entry("type", JStr("string")), Entry("description", JStr("d")),
               Entry("default", JStr("'a'")) >>),
      Ref(<< "/", "Bar", "/", "type" >>) }

Tables ==
    {JDict(<< Entry("Foo", f), Entry("Bar", b) >>) : f \in FooFragments, b \in BarFragments}

RequiredLists ==
    { << >>,
      << Entry("required", JList(<< >>)) >>,
      << Entry("required", JList(<< JStr("a") >>)) >>,
      << Entry("required", JList(<< JStr("b") >>)) >>,
      << Entry("required", JList(<< JStr("a"), JStr("b") >>)) >> }

\* documents that are mappings: from_dict takes these
Mappings ==
    { RefFoo,
      JDict(<< Entry("$ref", RefFoo.v[1].val), Entry("description", JStr("sibling")),
               Entry("items", Ref(<< "/", "Missing" >>)) >>),
      JDict(<< Entry("type", JStr("array")),
               Entry("items", Ref(<< "/", "Foo", "/", "items" >>)) >>),
      JDict(<< Entry("type", JStr("integer")), Entry("minimum", JNum(0)) >>),
      JDict(<< Entry("type", JStr("string")),
               Entry("anyOf", JList(<< RefFoo, TypeOnly("null"), RefBar >>)) >>) }
    \cup
    { JDict(<< Entry("type", JStr("object")),
               Entry("properties", JDict(<< Entry("a", RefFoo), Entry("b", second) >>)) >>
            \o required) :
        second \in {RefFoo, RefBar}, required \in RequiredLists }

Schemas == Mappings \cup { JList(<< RefFoo, JStr("s"), RefBar >>), JStr("scalar"), JNum(3) }

(***************************************************************************)
(* The resolver and from_dict, run call by call                            *)
(***************************************************************************)
\* _resolve_type_refs_in_schema(schema, definitions) is called, or
\* JSONSchema.from_dict(schema) with the table under its "definitions" key
InitResolve ==
    /\ steps = 0
    /\ work = None
    /\ out = None
    /\ \E schema \in Schemas, table \in Tables :
          \/ pc = "resolve" /\ input = schema /\ aux = table
          \/ /\ pc = "from_dict"
             /\ schema \in Mappings
             /\ input = JDict(schema.v \o << Entry("definitions", table) >>)
             /\ aux = None

\* the outermost call of the resolver
ResolveEnter ==
    /\ pc = "resolve"
    /\ steps' = steps + 1
    /\ work' = Pending(input, 1)
    /\ pc' = "resolving"
    /\ UNCHANGED <<input, aux, out>>

\* from_dict, lines 69-70
FromDictEnter ==
    /\ pc = "from_dict"
    /\ steps' = steps + 1
    /\ aux' = definitions_of(input)
    /\ work' = Pending(input, 1)
    /\ pc' = "resolving_document"
    /\ UNCHANGED <<input, out>>

\* the next call of the resolver; an exception ends the whole resolution
ResolveCall ==
    /\ pc \in {"resolving", "resolving_document"}
    /\ steps' = steps + 1
    /\ HasPending(work)
    /\ IF IsErr(resolve_next(work, aux))
       THEN /\ pc' = "raised"
            /\ out' = resolve_next(work, aux)
            /\ work' = None
       ELSE /\ work' = returned(work, resolve_next(work, aux))
            /\ UNCHANGED <<pc, out>>
    /\ UNCHANGED <<input, aux>>

\* the outermost call returns
ResolveReturn ==
    /\ pc = "resolving"
    /\ steps' = steps + 1
    /\ ~HasPending(work)
    /\ out' = work
    /\ pc' = "resolved"
    /\ UNCHANGED <<input, aux, work>>

\* from_dict, lines 72-88, on the resolved document
FromDictConstruct ==
    /\ pc = "resolving_document"
    /\ steps' = steps + 1
    /\ ~HasPending(work)
    /\ out' = from_resolved(work)
    /\ pc' = "decoded"
    /\ UNCHANGED <<input, aux, work>>

NextResolve ==
    \/ ResolveEnter
    \/ FromDictEnter
    \/ ResolveCall
    \/ ResolveReturn
    \/ FromDictConstruct

\* the run is at one of its ends
Ended == pc \in {"resolved", "raised", "decoded"}

\* the interpreter takes its next step.  Every action of NextResolve counts a
\* step and one of them is possible exactly when the run has not ended, so
\* under [][NextResolve]_vars this is NextResolve, told by the step counter
Step == ~Ended /\ steps' = steps + 1

\* the interpreter runs a call to its end: a step that can be taken is taken
SpecResolve == InitResolve /\ [][NextResolve]_vars /\ WF_steps(Step)
(***************************************************************************)
(* Properties of the resolver and of from_dict                             *)
(***************************************************************************)
RECURSIVE DirectPaths(_)

\* the paths of the "$ref" mappings of a document, those inside a "$ref"
\* mapping left out (the mapping is replaced whole)
DirectPaths(doc) ==
    CASE doc.k = "dict" ->
            IF Has(doc, "$ref") THEN {ref_path(doc)}
            ELSE UNION {DirectPaths(doc.v[i].val) : i \in 1..Len(doc.v)}
      [] doc.k = "list" -> UNION {DirectPaths(doc.v[i]) : i \in 1..Len(doc.v)}
      [] OTHER -> {}

TargetOf(path, definitions) ==
    IF IsErr(path) THEN path ELSE follow_path(definitions, path.v)

RECURSIVE PathClosure(_, _)

\* the paths reached from a set of paths through the definitions table
PathClosure(paths, definitions) ==
    LET found == {p \in paths : ~IsErr(TargetOf(p, definitions))}
        more == paths \cup UNION {DirectPaths(TargetOf(p, definitions)) : p \in found}
    IN  IF more = paths THEN paths ELSE PathClosure(more, definitions)

ReachedPaths(schema, definitions) == PathClosure(DirectPaths(schema), definitions)

\* no referenced fragment leads back to its own reference
Acyclic(schema, definitions) ==
    \A p \in ReachedPaths(schema, definitions) :
        ~IsErr(TargetOf(p, definitions)) =>
            p \notin PathClosure(DirectPaths(TargetOf(p, definitions)), definitions)

\* every referenced path is in the definitions table
AllPathsExist(schema, definitions) ==
    \A p \in ReachedPaths(schema, definitions) : ~IsErr(TargetOf(p, definitions))

RECURSIVE NoRef(_)

NoRef(doc) ==
    CASE doc.k = "dict" ->
            ~Has(doc, "$ref") /\ \A i \in 1..Len(doc.v) : NoRef(doc.v[i].val)
      [] doc.k = "list" -> \A i \in 1..Len(doc.v) : NoRef(doc.v[i])
      [] OTHER -> TRUE

RECURSIVE ResolvedAs(_, _, _)

\* res is schema with every "$ref" mapping replaced, whole, by the resolved
\* fragment it names, lists element by element and scalars unchanged
ResolvedAs(schema, definitions, res) ==
    IF schema.k = "dict" /\ Has(schema, "$ref") THEN
        /\ ~IsErr(ref_target(schema, definitions))
        /\ ResolvedAs(ref_target(schema, definitions), definitions, res)
    ELSE IF schema.k = "dict" THEN
        /\ res.k = "dict"
        /\ Keys(res) = Keys(schema)
        /\ \A i \in 1..Len(schema.v) :
              ResolvedAs(schema.v[i].val, definitions, res.v[i].val)
    ELSE IF schema.k = "list" THEN
        /\ res.k = "list"
        /\ Len(res.v) = Len(schema.v)
        /\ \A i \in 1..Len(schema.v) : ResolvedAs(schema.v[i], definitions, res.v[i])
    ELSE res = schema

\* the definitions table of the run
TableOfRun == IF pc = "from_dict" THEN definitions_of(input) ELSE aux

\* the resolved document of a run that got one
ResolvedOfRun == IF pc = "resolved" THEN out ELSE work

\* C4: when the reference graph is acyclic and every referenced path exists,
\* the resolver raises nothing, and what it returns holds no "$ref" key at any
\* depth: every "$ref" mapping is replaced whole by its resolved fragment,
\* references inside fragments are resolved too, lists are resolved element
\* by element in order and scalars are unchanged
C4_ResolutionComplete ==
    /\ (pc = "raised" =>
          ~(Acyclic(input, TableOfRun) /\ AllPathsExist(input, TableOfRun)))
    /\ (pc \in {"resolved", "decoded"} =>
          /\ NoRef(ResolvedOfRun)
          /\ ResolvedAs(input, TableOfRun, ResolvedOfRun))

\* C4 witness: the resolver has returned for a "$ref" mapping with sibling
\* keys whose fragment is itself a reference
C4_Witness ==
    /\ pc = "resolved"
    /\ input.k = "dict" /\ Has(input, "$ref") /\ Len(input.v) > 1
    /\ ref_target(input, aux).k = "dict"
    /\ Has(ref_target(input, aux), "$ref")

RECURSIVE RequiredDerived(_, _)

\* every decoded property is required exactly when its key is in the
\* "required" list of the object it belongs to, at every level
RequiredDerived(doc, n) ==
    /\ (GetOrNone(doc, "type") = JStr("object") =>
          LET props == IF Has(doc, "properties") THEN Get(doc, "properties").v ELSE << >>
          IN  /\ Keys(n.properties) = [i \in 1..Len(props) |-> props[i].key]
              /\ \A i \in 1..Len(props) :
                    /\ n.properties.v[i].val.required =
                          (/\ Has(doc, "required")
                           /\ JStr(props[i].key) \in Range(Get(doc, "required").v))
                    /\ RequiredDerived(props[i].val, n.properties.v[i].val))
    /\ (n.items # None => RequiredDerived(Get(doc, "items"), n.items))
    /\ (n.additional_properties # None =>
          RequiredDerived(Get(doc, "additionalProperties"), n.additional_properties))

\* C5: after from_dict every decoded property has required = TRUE exactly
\* when its key is in the "required" list of the same object, and FALSE when
\* the object has no such list; at every nesting level, and also for two
\* properties decoded from the same referenced definition
C5_RequiredDerived ==
    (pc = "decoded" /\ ~IsErr(out)) => RequiredDerived(work, out)

\* C5 witness: an object has been decoded whose two properties name the same
\* definition, the first of them alone in the "required" list
C5_Witness ==
    /\ pc = "decoded" /\ ~IsErr(out)
    /\ Has(input, "properties") /\ Has(input, "required")
    /\ Get(Get(input, "properties"), "a") = Get(Get(input, "properties"), "b")
    /\ Get(input, "required") = JList(<< JStr("a") >>)

LookupErrors == {Err("KeyError"), Err("TypeError")}

\* the run is over: the resolver returned the resolved structure, or it
\* raised the error of a failed lookup and left no result, or from_dict ended
Finished ==
    \/ pc = "resolved" /\ ~HasPending(out) /\ AllPathsExist(input, aux)
    \/ pc = "raised" /\ out \in LookupErrors /\ work = None
                     /\ ~AllPathsExist(input, aux)
    \/ pc = "decoded"

\* C10: on an acyclic reference graph, definitions that hold references
\* included, the resolver ends: it returns the resolved structure, or raises
\* a lookup error and returns nothing when a referenced path does not exist;
\* from_dict, which resolves the whole document with its definitions, ends too
C10_Terminates ==
    (pc \in {"resolve", "from_dict"} /\ Acyclic(input, TableOfRun)) ~> Finished

\* C10 witness: on an acyclic graph whose definition Foo refers to a missing
\* definition the resolver has raised KeyError
C10_Witness ==
    /\ pc = "raised" /\ out = Err("KeyError")
    /\ Acyclic(input, aux)
    /\ Get(aux, "Foo") = Ref(<< "/", "Missing" >>)
(***************************************************************************)
(* from_python_type.  A native type is                                     *)
(*   a class              [k |-> "class", v |-> "int"]                     *)
(*   a generic alias      [k |-> "alias", origin |-> "list", args |-> <<>>]*)
(*                        (list[int], typing.List, typing.Union[...],      *)
(*                         int | None with origin "UnionType")             *)
(*   a TypedDict class    [k |-> "typeddict", annotations |-> <<...>>]     *)
(*   a BaseModel subclass [k |-> "model", schema |-> its T.schema()]       *)
(***************************************************************************)
Class(name) == [k |-> "class", v |-> name]

Alias(origin, args) == [k |-> "alias", origin |-> origin, args |-> args]

NoneType == Class("NoneType")

\* typing.get_origin(T)
get_origin(T) == IF T.k = "alias" THEN T.origin ELSE "None"

\* typing.get_args(T)
get_args(T) == IF T.k = "alias" THEN T.args ELSE << >>

\* _PYTHON_TO_JSON_TYPE.get(T)
python_to_json_type(T) ==
    IF T = Class("int") THEN JStr("integer")
    ELSE IF T = Class("str") THEN JStr("string")
    ELSE IF T = Class("bool") THEN JStr("boolean")
    ELSE IF T = Class("float") THEN JStr("number")
    ELSE None

\* issubclass(T, BaseModel): "issubclass() arg 1 must be a class" for a
\* generic alias, which is an object and not a class
issubclass_BaseModel(T) ==
    IF T.k = "alias" THEN Err("TypeError") ELSE JBool(T.k = "model")

RECURSIVE from_python_type(_)

\* the branch of an optional: a Union whose last argument is NoneType
from_optional(T) ==
    IF Len(SubSeq(get_args(T), 1, Len(get_args(T)) - 1)) > 1
    THEN Err("NotImplementedError")
    ELSE LET partial_schema == from_python_type(get_args(T)[1])
         IN  IF IsErr(partial_schema) THEN partial_schema
             ELSE [partial_schema EXCEPT !.required = FALSE]

\* the branch of list: items from typing.get_args(T)[0]
from_list(T) ==
    IF Len(get_args(T)) < 1 THEN Err("IndexError")
    ELSE LET items == from_python_type(get_args(T)[1])
         IN  IF IsErr(items) THEN items
             ELSE JSONSchema([type |-> JStr("array"), items |-> items])

\* the branch of dict: additional_properties from typing.get_args(T)[1]
from_mapping(T) ==
    IF Len(get_args(T)) < 2 THEN Err("IndexError")
    ELSE LET value == from_python_type(get_args(T)[2])
         IN  IF IsErr(value) THEN value
             ELSE JSONSchema([type |-> JStr("object"), additional_properties |-> value])

\* the branch of a TypedDict: one property for each annotation
from_typeddict(T) ==
    LET fields == [i \in 1..Len(T.annotations) |-> from_python_type(T.annotations[i].val)]
    IN  IF AnyErr(fields) THEN FirstErr(fields)
        ELSE JSONSchema([type |-> JStr("object"),
                         properties |-> JDict([i \in 1..Len(fields) |->
                                                 Entry(T.annotations[i].key, fields[i])])])

from_python_type(T) ==
    IF Truthy(python_to_json_type(T))
    THEN JSONSchema([type |-> python_to_json_type(T), required |-> TRUE])
    ELSE IF get_origin(T) = "Union" /\ get_args(T)[Len(get_args(T))] = NoneType
    THEN from_optional(T)
    ELSE IF IsErr(issubclass_BaseModel(T)) THEN issubclass_BaseModel(T)
    ELSE
    LET partial_schema ==
          IF issubclass_BaseModel(T).v THEN from_dict(T.schema)
          ELSE IF T = Class("list") \/ get_origin(T) = "list" THEN from_list(T)
          ELSE IF T = Class("dict") \/ get_origin(T) = "dict" THEN from_mapping(T)
          ELSE IF T.k = "typeddict" THEN from_typeddict(T)
          ELSE Err("TypeError")
    IN  IF IsErr(partial_schema) THEN partial_schema
        ELSE [partial_schema EXCEPT !.required = TRUE]

(***************************************************************************)
(* The native types from_python_type is run on                             *)
(***************************************************************************)
\* most arguments of one Union
MaxUnion == 3

Primitives == {Class("int"), Class("str"), Class("bool"), Class("float")}

ListTypes ==
    {Class("list"), Alias("list", << >>)} \cup
    {Alias("list", << e >>) : e \in Primitives \cup {Class("bytes"), Alias("list", << Class("int") >>)}}

DictTypes ==
    {Class("dict")} \cup {Alias("dict", << Class("str"), e >>) : e \in Primitives}

UnionMembers ==
    {Class("int"), Class("str"), NoneType, Class("list"), Alias("list", << Class("int") >>)}

\* typing.Union keeps the order of its arguments, flattened and without repeats
UnionTypes ==
    UNION { {Alias("Union", args) :
                args \in {a \in [1..n -> UnionMembers] :
                            \A i, j \in 1..n : i # j => a[i] # a[j]}} :
            n \in 2..MaxUnion }

Person ==
    [k |-> "typeddict",
     annotations |-> << Entry("name", Class("str")),
                        Entry("age", Alias("Union", << Class("int"), NoneType >>)) >>]

PersonModel ==
    [k |-> "model",
     schema |-> JDict(<< Entry("title", JStr("Person")), Entry("type", JStr("object")),
                         Entry("properties",
                               JDict(<< Entry("name", JDict(<< Entry("title", JStr("Name")),
                                                               Entry("type", JStr("string")) >>)),
                                        Entry("age", JDict(<< Entry("title", JStr("Age")),
                                                              Entry("type", JStr("integer")) >>)) >>)),
                         Entry("required", JList(<< JStr("name") >>)) >>)]

NativeTypes ==
    Primitives \cup {NoneType, Class("bytes")} \cup ListTypes \cup DictTypes \cup UnionTypes
    \cup {Alias("UnionType", << Class("int"), NoneType >>), Person, PersonModel,
          [k |-> "typeddict", annotations |-> << Entry("tags", Class("list")) >>]}

InitInfer ==
    /\ steps = 0
    /\ pc = "type"
    /\ input \in NativeTypes
    /\ aux = None
    /\ work = None
    /\ out = None

FromPythonTypeStep ==
    /\ pc = "type"
    /\ steps' = steps + 1
    /\ out' = from_python_type(input)
    /\ pc' = "inferred"
    /\ UNCHANGED <<input, aux, work>>

NextInfer == FromPythonTypeStep

SpecInfer == InitInfer /\ [][NextInfer]_vars

(***************************************************************************)
(* Properties of from_python_type                                          *)
(***************************************************************************)
RECURSIVE SupportedType(_)

\* the types inference is meant for: the four primitives, lists, mappings,
\* TypedDicts and models, of supported types
SupportedType(T) ==
    \/ T \in Primitives
    \/ T.k \in {"typeddict", "model"}
    \/ T = Class("list") \/ T = Class("dict")
    \/ T.k = "alias" /\ T.origin \in {"list", "dict"}
         /\ \A i \in 1..Len(T.args) : SupportedType(T.args[i])

Concrete(T) == SelectSeq(get_args(T), LAMBDA a : a # NoneType)

IsUnionWithNone(T) == get_origin(T) = "Union" /\ NoneType \in Range(get_args(T))

\* C7: a union of one supported type and NoneType, in either order, yields the
\* node inferred from that type with required = FALSE; a union of several
\* types and NoneType raises NotImplementedError; the node yielded for a
\* supported type that is not optional has required = TRUE
C7_OptionalInference ==
    pc = "inferred" =>
        /\ (IsUnionWithNone(input) /\ Len(Concrete(input)) = 1
              /\ SupportedType(Concrete(input)[1])) =>
              /\ ~IsErr(out)
              /\ ~out.required
              /\ (~IsErr(from_python_type(Concrete(input)[1])) =>
                    out = [from_python_type(Concrete(input)[1]) EXCEPT !.required = FALSE])
        /\ (IsUnionWithNone(input) /\ Len(Concrete(input)) > 1) =>
              out = Err("NotImplementedError")
        /\ (SupportedType(input) /\ ~IsErr(out)) => out.required

IsListType(T) == T = Class("list") \/ get_origin(T) = "list"

\* C9: a list type with an element type yields an array node, required, whose
\* items are the node inferred from the element type; a list type without an
\* element type yields an array node without items
C9_SequenceInference ==
    (pc = "inferred" /\ IsListType(input)) =>
        /\ ~IsErr(out)
        /\ out.type = JStr("array")
        /\ IF Len(get_args(input)) = 0 THEN out.items = None
           ELSE /\ out.required
                /\ (SupportedType(get_args(input)[1]) =>
                      out.items = from_python_type(get_args(input)[1]))
====
